---- MODULE Spec2Model ----
(***************************************************************************)
(* Model of the sequelize history plugin (src/unnamed/part_000): option    *)
(* resolution and attachment, the history model's sync (trigger install),  *)
(* the afterUpdate hook writing history rows, restore, cascade delete and  *)
(* the before-insert revision trigger under sequential and concurrent      *)
(* inserts.                                                                *)
(*                                                                         *)
(* Strings built by concatenation are modelled as tuples of their parts    *)
(* (model.name + 'History' is <<name, "History">>).  Option keys that are   *)
(* undefined hold Absent, given ones Given(v).  Arrays of field names whose order no  *)
(* code reads (options.track) are sets; instance.changed() is a sequence   *)
(* in attribute order.                                                     *)
(***************************************************************************)
EXTENDS Integers, Sequences, FiniteSets, TLC

VARIABLES
    arguments,     \* the arguments the plugin factory was called with
    options,       \* the factory closure's `options` variable (line 179-187)
    models,        \* sequelize's registry of defined history models
    associations,  \* belongsTo associations registered on history models
    hooks,         \* afterUpdate hooks registered on source models, in order
    attaches,      \* number of calls of the attachment function so far
    outcome,       \* observable result of the last operation (return or error)
    source,        \* the source table: a function from the ids present to rows
    history,       \* the history table, rows in insertion (_id) order
    nextId,        \* serial of the history table's autoIncrement _id
    now,           \* clock read by new Date()
    held,          \* the history instance the caller kept across the delete
                   \* just done, to restore it next: <<>> or <<row>>
    syncPc,        \* sync promise chain: 0 not called, i the i-th statement in
                   \* flight, Len+1 resolved, -1 rejected
    queries,       \* statements issued by the current/last sync call, in order
    db,            \* database objects of the history table: table, fn, trigger
    syncs,         \* number of sync calls so far
    pc,            \* per concurrent caller: position inside its update
    local          \* per concurrent caller: the instance and the trigger's NEW row

vars == <<arguments, options, models, associations, hooks, attaches, outcome, source,
          history, nextId, now, held, syncPc, queries, db, syncs, pc, local>>

attachVars == <<arguments, options, models, associations, hooks, attaches>>
tableVars == <<source, history, nextId, now, held>>
syncVars == <<syncPc, queries, db, syncs>>
callerVars == <<pc, local>>

---------------------------------------------------------------------------
(* Bounds *)

MaxAttach == 2      \* calls of one attachment function
MaxInserts == 3     \* history rows ever inserted
MaxSyncs == 3       \* calls of sync

---------------------------------------------------------------------------
(* The source models the plugin is attached to *)

Absent == {}                     \* an undefined option key
Given(v) == {v}                  \* an option key holding v
ValueOf(opt) == CHOOSE v \in opt : TRUE
Null == 0                        \* SQL NULL of an integer column

ModelNames == {"Order", "Item", "Tag"}

\* Object.keys(model.attributes), in definition order
ModelAttributes ==
    [Order |-> <<"id", "x", "z">>, Item |-> <<"id", "x", "y">>, Tag |-> <<"key", "x">>]

ModelTableName == [Order |-> "orders", Item |-> "items", Tag |-> "tags"]

Range(s) == {s[i] : i \in DOMAIN s}

AttrSet(model) == Range(ModelAttributes[model])

---------------------------------------------------------------------------
(* Plugin factory and option resolution *)

\* Arguments a caller passes to the factory: an array of field names, an
\* options object, or a variadic list of field names.
FactoryInputs ==
    {[kind |-> "array", fields |-> {"x", "y"}]}
    \cup {[kind |-> "variadic", fields |-> f] : f \in {{}, {"x"}}}
    \cup {[kind |-> "object", track |-> t, idAttr |-> i, modelName |-> m, tableName |-> n] :
            t \in {Absent, Given({"x"})}, i \in {Absent, Given("id"), Given("key")},
            m \in {Absent, Given(<<"Audit">>)}, n \in {Absent, Given(<<"audit">>)}}

\* lines 180-182: canonical options object handed to the closure
NormalizeArgs(args) ==
    IF args.kind = "object"
    THEN [track |-> args.track, idAttr |-> args.idAttr,
          modelName |-> args.modelName, tableName |-> args.tableName]
    ELSE [track |-> Given(args.fields), idAttr |-> Absent,
          modelName |-> Absent, tableName |-> Absent]

Default(opt, dflt) == IF opt = Absent THEN Given(dflt) ELSE opt

\* joi.validate(o, internals.optionsSchema(model)): every key keeps its value
\* when present and takes the schema's default for `model` when undefined
ValidateOptions(model, o) ==
    [track |-> Default(o.track, AttrSet(model)),
     idAttr |-> Default(o.idAttr, "id"),
     modelName |-> Default(o.modelName, <<model, "History">>),
     tableName |-> Default(o.tableName, <<ModelTableName[model], "_history">>)]

\* faulty variant: the check tests that the option is set, not that it names an attribute
InvalidIdAttrUnset(model, opts) == opts.idAttr = Absent

\* line 44-46: model.attributes[options.idAttr] is undefined
InvalidIdAttr(model, opts) == ValueOf(opts.idAttr) \notin AttrSet(model)

\* lines 49-67: the six meta attributes
MetaAttrs == {"_id", "_sourceId", "_revision", "_user", "_date", "_changes"}

\* lines 70-74 and 115-123: the history model definition handed to define()
HistoryModelOf(model, opts) ==
    [name |-> ValueOf(opts.modelName),
     tableName |-> ValueOf(opts.tableName),
     columns |-> (AttrSet(model) \cap ValueOf(opts.track)) \cup MetaAttrs,
     track |-> ValueOf(opts.track),   \* closed over by restore (line 82)
     timestamps |-> FALSE,
     indexes |-> {"_sourceId"}]

\* sequelize.define: a model defined under a registered name replaces it
Define(registry, hm) == {m \in registry : m.name # hm.name} \cup {hm}

\* faulty variant: the association is registered without onDelete: 'cascade'
AssociationNoCascade(hm, model) ==
    [history |-> hm.name, target |-> model, as |-> "source",
     foreignKey |-> "_sourceId", onDelete |-> "no action"]

\* lines 132-135
AssociationOf(hm, model) ==
    [history |-> hm.name, target |-> model, as |-> "source",
     foreignKey |-> "_sourceId", onDelete |-> "cascade"]

\* lines 184-191: the attachment function applied to `model`
Attach(model) ==
    /\ attaches < MaxAttach
    /\ attaches' = attaches + 1
    /\ LET validated == ValidateOptions(model, options)
           hm == HistoryModelOf(model, validated)
       IN /\ options' = validated
          /\ IF InvalidIdAttr(model, validated)
             THEN /\ outcome' = [op |-> "attach", model |-> model,
                                 err |-> "InvalidIdAttribute", options |-> validated]
                  /\ UNCHANGED <<models, associations, hooks>>
             ELSE /\ models' = Define(models, hm)
                  /\ associations' = associations \cup {AssociationOf(hm, model)}
                  /\ hooks' = Append(hooks, [model |-> model, options |-> validated])
                  /\ outcome' = [op |-> "attach", model |-> model,
                                 err |-> "none", options |-> validated]
    /\ UNCHANGED <<arguments, tableVars, syncVars, callerVars>>

---------------------------------------------------------------------------
(* The history model's sync: table sync, then the trigger statements *)

\* faulty variant: the chain issues the statements in the order they are declared
SyncChainAsDeclared == <<"sync", "dropInsertTrigger", "createInsertFn", "createInsertTrigger">>

\* lines 107-110: the promise chain, in the order the statements are issued
SyncChain == <<"sync", "createInsertFn", "dropInsertTrigger", "createInsertTrigger">>

\* The database executing one statement of the chain (lines 96, 100, 104):
\* CREATE TABLE IF NOT EXISTS; CREATE OR REPLACE FUNCTION; DROP TRIGGER IF
\* EXISTS on the table; CREATE TRIGGER, which fails when the trigger exists already or
\* the function it names does not.
Exec(stmt, d) ==
    CASE stmt = "sync" -> [ok |-> TRUE, db |-> [d EXCEPT !.table = TRUE]]
      [] stmt = "createInsertFn" -> [ok |-> TRUE, db |-> [d EXCEPT !.fn = TRUE]]
      [] stmt = "dropInsertTrigger" ->
            [ok |-> d.table, db |-> IF d.table THEN [d EXCEPT !.trigger = FALSE] ELSE d]
      [] stmt = "createInsertTrigger" ->
            IF d.table /\ d.fn /\ ~d.trigger
            THEN [ok |-> TRUE, db |-> [d EXCEPT !.trigger = TRUE]]
            ELSE [ok |-> FALSE, db |-> d]

\* line 92: sync() is called; the first statement of the chain is issued
SyncStart ==
    /\ syncPc \in {0, Len(SyncChain) + 1, -1}
    /\ syncs < MaxSyncs
    /\ syncs' = syncs + 1
    /\ syncPc' = 1
    /\ queries' = <<SyncChain[1]>>
    /\ outcome' = [op |-> "sync", err |-> "pending"]
    /\ UNCHANGED <<db, attachVars, tableVars, callerVars>>

\* the statement in flight completes; .then issues the next one, a
\* rejection skips the rest of the chain
SyncStep ==
    /\ syncPc \in DOMAIN SyncChain
    /\ LET r == Exec(SyncChain[syncPc], db)
       IN /\ db' = r.db
          /\ IF ~r.ok
             THEN /\ syncPc' = -1
                  /\ queries' = queries
                  /\ outcome' = [op |-> "sync", err |-> "DatabaseError"]
             ELSE /\ syncPc' = syncPc + 1
                  /\ queries' = IF syncPc < Len(SyncChain)
                                THEN Append(queries, SyncChain[syncPc + 1])
                                ELSE queries
                  /\ outcome' = [op |-> "sync",
                                 err |-> IF syncPc < Len(SyncChain) THEN "pending" ELSE "none"]
    /\ UNCHANGED <<syncs, attachVars, tableVars, callerVars>>

\* the statement in flight fails (connection lost): the chain rejects
SyncFail ==
    /\ syncPc \in DOMAIN SyncChain
    /\ syncPc' = -1
    /\ outcome' = [op |-> "sync", err |-> "ConnectionError"]
    /\ UNCHANGED <<queries, db, syncs, attachVars, tableVars, callerVars>>

\* the sync promise has resolved: the application uses the models
Synced == syncPc = Len(SyncChain) + 1

---------------------------------------------------------------------------
(* Rows, instances and the database's insert into the history table *)

SourceModel == "Order"
SourceIds == {1, 2}
Values == {0, 1}

RowsOf(id) == {[id |-> id, x |-> a, z |-> b] : a, b \in Values}

Max(S) == CHOOSE m \in S : \A n \in S : n <= m

\* _.pick(object, keys)
Pick(rec, keys) == [f \in (DOMAIN rec) \cap keys |-> rec[f]]

\* instance.changed(): the attribute names whose value differs from
\* _previousDataValues, in attribute order
Changed(prev, cur) ==
    LET differs(f) == prev[f] # cur[f]
    IN SelectSeq(ModelAttributes[SourceModel], differs)

\* _.intersection(array, track)
Intersection(seq, set) ==
    LET member(f) == f \in set
    IN SelectSeq(seq, member)

\* faulty variant: the trigger function's SELECT lacks the WHERE clause
InsertFnNoWhere(table, new) ==
    [new EXCEPT !._revision = Max({0} \cup {table[i]._revision : i \in DOMAIN table}) + 1]

\* line 100, the trigger function's body:
\* NEW._revision := (SELECT coalesce(max(_revision), 0) ... WHERE "_sourceId" = NEW."_sourceId") + 1
InsertFn(table, new) ==
    [new EXCEPT !._revision =
        Max({0} \cup {table[i]._revision : i \in {j \in DOMAIN table :
                                               table[j]._sourceId = new._sourceId}}) + 1]

\* line 104: BEFORE INSERT ... FOR EACH ROW, when the trigger is installed
BeforeInsert(d, table, new) ==
    IF d.trigger /\ d.fn THEN InsertFn(table, new) ELSE new

\* lines 54 and 57: unique: 'naturalId' on (_sourceId, _revision); NULLs are distinct
UniqueViolation(table, new) ==
    /\ new._revision # Null
    /\ \E i \in DOMAIN table :
          table[i]._sourceId = new._sourceId /\ table[i]._revision = new._revision

\* line 133: the foreign key _sourceId -> source row
ForeignKeyViolation(src, new) == new._sourceId \notin DOMAIN src

\* The table's checks on a row the trigger has passed
InsertError(src, table, new) ==
    IF ForeignKeyViolation(src, new) THEN "ForeignKeyConstraintError"
    ELSE IF UniqueViolation(table, new) THEN "UniqueConstraintError"
    ELSE "none"

\* faulty variant: the record is not restricted to the tracked fields
HistoryRecordUnpicked(opts, inst, date) ==
    [snap |-> inst.prev,
     _sourceId |-> inst.cur[ValueOf(opts.idAttr)],
     _date |-> date,
     _changes |-> inst.changed,
     _id |-> Null, _revision |-> Null, _user |-> Null]

\* faulty variant: the record is built from the instance's current values
HistoryRecordCurrent(opts, inst, date) ==
    [snap |-> Pick(inst.cur, ValueOf(opts.track)),
     _sourceId |-> inst.cur[ValueOf(opts.idAttr)],
     _date |-> date,
     _changes |-> inst.changed,
     _id |-> Null, _revision |-> Null, _user |-> Null]

\* lines 145-153: the record writeHistory builds for `inst`
HistoryRecord(opts, inst, date) ==
    [snap |-> Pick(inst.prev, ValueOf(opts.track)),
     _sourceId |-> inst.cur[ValueOf(opts.idAttr)],
     _date |-> date,
     _changes |-> inst.changed,
     _id |-> Null, _revision |-> Null, _user |-> Null]

\* faulty variant: the hook writes history whenever anything changed
TouchesAny(opts, inst) == Len(inst.changed) > 0

\* line 167: the hook's guard
TouchesTracked(opts, inst) ==
    Len(Intersection(inst.changed, ValueOf(opts.track))) > 0

\* lines 166-169 with line 155: one afterUpdate hook run in state st =
\* [table, serial, clock, err, wrote]; a rejected hook skips the later ones
AfterUpdate(opts, st, src, inst) ==
    IF st.err # "none" \/ ~TouchesTracked(opts, inst)
    THEN st
    ELSE LET rec == [HistoryRecord(opts, inst, st.clock) EXCEPT !._id = st.serial]
             new == BeforeInsert(db, st.table, rec)
             err == InsertError(src, st.table, new)
         IN [table |-> IF err = "none" THEN Append(st.table, new) ELSE st.table,
             serial |-> st.serial + 1,
             clock |-> st.clock + 1,
             err |-> err,
             wrote |-> IF err = "none" THEN st.wrote + 1 ELSE st.wrote]

\* sequelize runs the afterUpdate hooks registered on the model in order
RECURSIVE RunHooks(_, _, _, _)
RunHooks(hs, st, src, inst) ==
    IF hs = <<>> THEN st
    ELSE RunHooks(Tail(hs),
                  IF Head(hs).model = SourceModel
                  THEN AfterUpdate(Head(hs).options, st, src, inst) ELSE st,
                  src, inst)

\* instance.update(values) on the row `id`: nothing is saved and no hook
\* runs when no value differs; otherwise the row is written and the
\* afterUpdate hooks run with _previousDataValues still the old values
SaveResult(id, cur) ==
    LET inst == [prev |-> source[id], cur |-> cur, changed |-> Changed(source[id], cur)]
        st0 == [table |-> history, serial |-> nextId, clock |-> now, err |-> "none", wrote |-> 0]
    IN IF inst.changed = <<>> THEN [st |-> st0, inst |-> inst, src |-> source]
       ELSE LET src == [source EXCEPT ![id] = cur]
            IN [st |-> RunHooks(hooks, st0, src, inst), inst |-> inst, src |-> src]

\* history rows the hooks of an update of row `id` to `cur` would insert
Writes(id, cur) == SaveResult(id, cur).st.serial - nextId

---------------------------------------------------------------------------
(* Operations on the source model and on history instances, each awaited   *)
(* to completion before the next one starts                                *)

\* room for the history rows an update would attempt to insert
Room(n) == nextId - 1 + n <= MaxInserts

\* the row Source.create({id: id}) stores: the columns' default values
NewRow(id) == [id |-> id, x |-> 0, z |-> 0]

\* Source.create(...): no hook is registered for creation
CreateSource(id) ==
    /\ Synced
    /\ id \notin DOMAIN source
    /\ source' = [i \in DOMAIN source \cup {id} |-> IF i = id THEN NewRow(id) ELSE source[i]]
    /\ held' = <<>>
    /\ outcome' = [op |-> "create", err |-> "none"]
    /\ UNCHANGED <<history, nextId, now, attachVars, syncVars, callerVars>>

\* instance.update(...) of row `id` to the values `cur`, then the hooks
UpdateSource(id, cur) ==
    /\ Synced
    /\ id \in DOMAIN source
    /\ cur # source[id]
    /\ Room(Writes(id, cur))
    /\ LET r == SaveResult(id, cur)
       IN /\ source' = r.src
          /\ history' = r.st.table
          /\ nextId' = r.st.serial
          /\ now' = r.st.clock
          /\ outcome' = [op |-> "update", err |-> r.st.err]
    /\ held' = <<>>
    /\ UNCHANGED <<attachVars, syncVars, callerVars>>

\* line 133, onDelete: the foreign key's action when the source row goes
OnDelete ==
    IF \E a \in associations : a.target = SourceModel /\ a.onDelete = "cascade"
    THEN "cascade" ELSE "no action"

References(table, id) ==
    LET refers(r) == r._sourceId = id
    IN SelectSeq(table, refers)

Unreferenced(table, id) ==
    LET other(r) == r._sourceId # id
    IN SelectSeq(table, other)

\* instance.destroy() of row `id`: the foreign key deletes the history
\* rows of the source row, or rejects the delete when it does not cascade.
\* The caller may still hold the instance of one of the deleted history
\* rows, found before the delete (keep = 0: it holds none), until its
\* next operation.
DeleteSource(id, keep) ==
    /\ Synced
    /\ id \in DOMAIN source
    /\ keep = 0 \/ (keep \in DOMAIN history /\ history[keep]._sourceId = id)
    /\ IF OnDelete = "cascade" \/ References(history, id) = <<>>
       THEN /\ source' = [i \in DOMAIN source \ {id} |-> source[i]]
            /\ history' = Unreferenced(history, id)
            /\ held' = IF keep = 0 THEN <<>> ELSE <<history[keep]>>
            /\ outcome' = [op |-> "delete", err |-> "none"]
       ELSE /\ UNCHANGED <<source, history>>
            /\ held' = <<>>
            /\ outcome' = [op |-> "delete", err |-> "ForeignKeyConstraintError"]
    /\ UNCHANGED <<nextId, now, attachVars, syncVars, callerVars>>

\* the history model restore is defined on
HistoryModel == CHOOSE m \in models : TRUE

\* line 82: var values = _.pick(this, options.track)
RestoreValues(h) == Pick(h.snap, HistoryModel.track)

\* source.update(values): the row with the given values overlaid
Overlay(row, values) ==
    [f \in DOMAIN row |-> IF f \in DOMAIN values THEN values[f] ELSE row[f]]

\* lines 81-88, h.restore(): getSource() resolves to the source row, or to
\* null when there is none; null.update throws a TypeError inside the
\* then-callback, which rejects the returned promise
RestoreInstance(h) ==
    LET id == h._sourceId
    IN IF id \notin DOMAIN source
       THEN /\ outcome' = [op |-> "restore", err |-> "TypeError"]
            /\ UNCHANGED <<source, history, nextId, now>>
       ELSE LET cur == Overlay(source[id], RestoreValues(h))
                r == SaveResult(id, cur)
            IN /\ Room(Writes(id, cur))
               /\ source' = r.src
               /\ history' = r.st.table
               /\ nextId' = r.st.serial
               /\ now' = r.st.clock
               /\ outcome' = [op |-> "restore", err |-> r.st.err]

\* History.findOne(...).then(h => h.restore()) on the i-th history row
Restore(i) ==
    /\ Synced
    /\ i \in DOMAIN history
    /\ RestoreInstance(history[i])
    /\ held' = <<>>
    /\ UNCHANGED <<attachVars, syncVars, callerVars>>

\* held.restore() on the instance the caller kept across a delete
RestoreHeld ==
    /\ Synced
    /\ held # <<>>
    /\ RestoreInstance(held[1])
    /\ held' = <<>>
    /\ UNCHANGED <<attachVars, syncVars, callerVars>>

---------------------------------------------------------------------------
(* Specification of the attached plugin in use: one caller, every          *)
(* operation awaited                                                       *)

Callers == {"a", "b"}

\* callers passing the factory a track list, or nothing but defaults
RuntimeInputs ==
    {[kind |-> "array", fields |-> {"x"}],
     [kind |-> "object", track |-> Absent, idAttr |-> Absent,
      modelName |-> Absent, tableName |-> Absent]}

NoTables ==
    /\ source = [i \in {} |-> 0]
    /\ history = <<>>
    /\ nextId = 1
    /\ now = 0
    /\ held = <<>>

NoCallers ==
    /\ pc = [c \in Callers |-> "idle"]
    /\ local = [c \in Callers |-> <<>>]

\* the state after plugin(arguments)(Order) returned the history model
Attached(a) ==
    LET o == ValidateOptions(SourceModel, NormalizeArgs(a))
        hm == HistoryModelOf(SourceModel, o)
    IN /\ arguments = a
       /\ options = o
       /\ models = Define({}, hm)
       /\ associations = {AssociationOf(hm, SourceModel)}
       /\ hooks = <<[model |-> SourceModel, options |-> o]>>
       /\ attaches = 1
       /\ outcome = [op |-> "attach", model |-> SourceModel, err |-> "none", options |-> o]

\* the state after the history model's sync() resolved
SyncResolved ==
    /\ syncPc = Len(SyncChain) + 1
    /\ queries = SyncChain
    /\ db = [table |-> TRUE, fn |-> TRUE, trigger |-> TRUE]
    /\ syncs = 1

Init ==
    /\ \E a \in RuntimeInputs : Attached(a)
    /\ NoTables
    /\ NoCallers
    /\ SyncResolved

Next ==
    \/ \E id \in SourceIds : CreateSource(id)
    \/ \E id \in SourceIds : \E cur \in RowsOf(id) : UpdateSource(id, cur)
    \/ \E id \in SourceIds : \E keep \in 0..MaxInserts : DeleteSource(id, keep)
    \/ \E i \in 1..MaxInserts : Restore(i)
    \/ RestoreHeld

Spec == Init /\ [][Next]_vars

---------------------------------------------------------------------------
(* Specification of attachment: one factory call, its attachment function  *)
(* applied to models one after another                                     *)

FreshDatabase ==
    /\ syncPc = 0
    /\ queries = <<>>
    /\ db = [table |-> FALSE, fn |-> FALSE, trigger |-> FALSE]
    /\ syncs = 0

\* lines 179-184: the state after plugin(arguments) returned the closure
InitAttach ==
    /\ arguments \in FactoryInputs
    /\ options = NormalizeArgs(arguments)
    /\ models = {}
    /\ associations = {}
    /\ hooks = <<>>
    /\ attaches = 0
    /\ outcome = [op |-> "factory", err |-> "none"]
    /\ NoTables
    /\ NoCallers
    /\ FreshDatabase

NextAttach == \E model \in ModelNames : Attach(model)

SpecAttach == InitAttach /\ [][NextAttach]_vars

---------------------------------------------------------------------------
(* Specification of sync: the history model of an attached plugin is       *)
(* synced, on a fresh database or on one an earlier run has set up         *)

Databases ==
    {[table |-> FALSE, fn |-> FALSE, trigger |-> FALSE],
     [table |-> FALSE, fn |-> TRUE, trigger |-> FALSE],
     [table |-> TRUE, fn |-> FALSE, trigger |-> FALSE],
     [table |-> TRUE, fn |-> TRUE, trigger |-> FALSE],
     [table |-> TRUE, fn |-> TRUE, trigger |-> TRUE]}

InitSync ==
    /\ \E a \in RuntimeInputs : Attached(a)
    /\ NoTables
    /\ NoCallers
    /\ syncPc = 0
    /\ queries = <<>>
    /\ db \in Databases
    /\ syncs = 0

NextSync ==
    \/ SyncStart
    \/ SyncStep
    \/ SyncFail

SpecSync == InitSync /\ [][NextSync]_vars

---------------------------------------------------------------------------
(* Specification of concurrent callers: each update is an UPDATE           *)
(* statement, then per hook an INSERT statement whose before-insert        *)
(* trigger reads the table before the row is checked and stored            *)

ModelHooks ==
    LET onSource(h) == h.model = SourceModel
    IN SelectSeq(hooks, onSource)

InFlight == {c \in Callers : pc[c] # "idle"}

\* caller c continues with the hooks left, or its update completes
Continue(c, inst, hs, err) ==
    IF hs = <<>> \/ err # "none"
    THEN /\ pc' = [pc EXCEPT ![c] = "idle"]
         /\ local' = [local EXCEPT ![c] = <<>>]
         /\ outcome' = [op |-> "update", err |-> err]
    ELSE /\ pc' = [pc EXCEPT ![c] = "hook"]
         /\ local' = [local EXCEPT ![c] = <<[inst |-> inst, hs |-> hs]>>]
         /\ UNCHANGED outcome

\* instance.update(...): the UPDATE statement of caller c is executed
ConcUpdate(c, id, cur) ==
    /\ pc[c] = "idle"
    /\ id \in DOMAIN source
    /\ cur # source[id]
    /\ nextId - 1 + Cardinality(InFlight) * Len(ModelHooks) + Len(ModelHooks) <= MaxInserts
    /\ source' = [source EXCEPT ![id] = cur]
    /\ Continue(c, [prev |-> source[id], cur |-> cur, changed |-> Changed(source[id], cur)],
                ModelHooks, "none")
    /\ UNCHANGED <<history, nextId, now, held, attachVars, syncVars>>

\* lines 166-169 and 145-155: the next hook of caller c runs; when a
\* tracked field changed it builds the record and sends the INSERT, whose
\* before-insert trigger computes NEW from the rows committed so far
ConcHook(c) ==
    /\ pc[c] = "hook"
    /\ LET l == local[c][1]
           opts == Head(l.hs).options
           rec == [HistoryRecord(opts, l.inst, now) EXCEPT !._id = nextId]
       IN IF TouchesTracked(opts, l.inst)
          THEN /\ pc' = [pc EXCEPT ![c] = "insert"]
               /\ local' = [local EXCEPT ![c] =
                     <<[inst |-> l.inst, hs |-> Tail(l.hs),
                        new |-> BeforeInsert(db, history, rec)]>>]
               /\ nextId' = nextId + 1
               /\ now' = now + 1
               /\ UNCHANGED outcome
          ELSE /\ Continue(c, l.inst, Tail(l.hs), "none")
               /\ UNCHANGED <<nextId, now>>
    /\ UNCHANGED <<source, history, held, attachVars, syncVars>>

\* the INSERT of caller c checks its constraints and stores the row, or
\* fails, which rejects the hook and with it the update
ConcInsert(c) ==
    /\ pc[c] = "insert"
    /\ LET l == local[c][1]
           err == InsertError(source, history, l.new)
       IN /\ history' = IF err = "none" THEN Append(history, l.new) ELSE history
          /\ Continue(c, l.inst, l.hs, err)
    /\ UNCHANGED <<source, nextId, now, held, attachVars, syncVars>>

InitConc ==
    /\ \E a \in RuntimeInputs : Attached(a)
    /\ source = [id \in SourceIds |-> NewRow(id)]
    /\ history = <<>>
    /\ nextId = 1
    /\ now = 0
    /\ held = <<>>
    /\ NoCallers
    /\ SyncResolved

NextConc ==
    \/ \E c \in Callers : \E id \in SourceIds : \E cur \in RowsOf(id) : ConcUpdate(c, id, cur)
    \/ \E c \in Callers : ConcHook(c)
    \/ \E c \in Callers : ConcInsert(c)

SpecConc == InitConc /\ [][NextConc]_vars

---------------------------------------------------------------------------
(* Properties *)

\* the options the hook registered on the source model was given
HookOptions == Head(ModelHooks).options
Track == ValueOf(HookOptions.track)
IdAttr == ValueOf(HookOptions.idAttr)
Untracked == AttrSet(SourceModel) \ Track

\* the ids of the source rows a step wrote new values to
Updated == {id \in DOMAIN source \cap DOMAIN source' : source[id] # source'[id]}

\* the field names a step changed on source row id
ChangedBy(id) == Range(Changed(source[id], source'[id]))

IsPrefix(s, t) == Len(s) <= Len(t) /\ \A i \in DOMAIN s : s[i] = t[i]

\* C1: an update of a source row writes a history row if and only if it
\* changed a tracked field; when it changed none, the history table is
\* left as it was and the update completes without error.
C1_WritesIffTrackedChanged ==
    [][\A id \in Updated :
          /\ (Len(history') = Len(history) + 1) <=> (ChangedBy(id) \cap Track # {})
          /\ (ChangedBy(id) \cap Track = {}) =>
                (history' = history /\ outcome'.err = "none")]_vars

\* C1 witness: z is untracked and was changed by an update (rows are
\* created with z = 0) that wrote no history row.
C1_Witness ==
    /\ "z" \in Untracked
    /\ outcome = [op |-> "update", err |-> "none"]
    /\ history = <<>>
    /\ nextId = 1
    /\ \E id \in DOMAIN source : source[id].z = 1 /\ source[id].x = 0

\* C2: with every update awaited, the history rows of each source id carry
\* _revision 1, 2, 3, ... in insertion order, and no two history rows share
\* a (_sourceId, _revision) pair.
C2_RevisionsSequential ==
    /\ \A id \in SourceIds :
          \A k \in DOMAIN References(history, id) :
             References(history, id)[k]._revision = k
    /\ \A i, j \in DOMAIN history :
          (history[i]._sourceId = history[j]._sourceId
             /\ history[i]._revision = history[j]._revision) => i = j

\* C2 witness: three updates of one source row were recorded, while the
\* other source row exists.
C2_Witness ==
    \E id \in DOMAIN source :
       /\ Len(References(history, id)) = 3
       /\ References(history, id)[3]._revision = 3
       /\ DOMAIN source = SourceIds

\* C3 as stated: no field outside the track set appears in a history row,
\* neither as a snapshot column nor in the row's _changes list.
C3_UntrackedNeverAppears ==
    \A i \in DOMAIN history :
       \A f \in Untracked :
          f \notin DOMAIN history[i].snap /\ f \notin Range(history[i]._changes)

\* C3 amended: no field outside the track set is a snapshot column of a
\* history row, and every history row was written for an update that
\* changed a tracked field; the name of an untracked field changed by the
\* same update is recorded in _changes.
C3_UntrackedNeverSnapshotNorTrigger ==
    \A i \in DOMAIN history :
       /\ DOMAIN history[i].snap \cap Untracked = {}
       /\ Range(history[i]._changes) \cap Track # {}
       /\ Range(history[i]._changes) \subseteq AttrSet(SourceModel)

\* C3 witness: a row written for an update that changed the tracked x and
\* the untracked z together.
C3_Witness ==
    /\ "z" \in Untracked
    /\ \E i \in DOMAIN history :
          history[i]._changes = <<"x", "z">> /\ DOMAIN history[i].snap = {"x"}

\* C4: an update that changes a tracked field appends exactly one history
\* row, holding the previous values of exactly the tracked fields, the
\* instance's current id value as _sourceId and the changed field names
\* as _changes.
C4_OneRowWithPreviousValues ==
    [][\A id \in Updated :
          (ChangedBy(id) \cap Track # {}) =>
             /\ Len(history') = Len(history) + 1
             /\ SubSeq(history', 1, Len(history)) = history
             /\ LET r == history'[Len(history')]
                IN /\ DOMAIN r.snap = Track
                   /\ \A f \in Track : r.snap[f] = source[id][f]
                   /\ r._sourceId = source'[id][IdAttr]
                   /\ r._changes = Changed(source[id], source'[id])]_vars

\* C4 witness: the last row records an update that changed x alone, and
\* holds the value x had before it.
C4_Witness ==
    /\ history # <<>>
    /\ outcome = [op |-> "update", err |-> "none"]
    /\ LET r == history[Len(history)]
       IN /\ r._changes = <<"x">>
          /\ r._sourceId \in DOMAIN source
          /\ r.snap.x = 0
          /\ source[r._sourceId].x = 1
          /\ r._id = nextId - 1

\* C5 as stated: restore of a history row whose source row exists sets
\* every tracked field of the source row to the row's value and persists
\* it; restore of a row whose source row is gone fails with a not-found
\* error and modifies no row.
C5_RestoreOrNotFound ==
    [][outcome'.op = "restore" =>
          \E h \in Range(history) \cup Range(held) :
             IF h._sourceId \in DOMAIN source
             THEN /\ outcome'.err = "none"
                  /\ h._sourceId \in DOMAIN source'
                  /\ \A f \in DOMAIN h.snap \cap Track :
                        source'[h._sourceId][f] = h.snap[f]
             ELSE /\ outcome'.err = "NotFoundError"
                  /\ source' = source
                  /\ history' = history]_vars

\* C6: deleting a source row succeeds and deletes exactly the history rows
\* whose _sourceId is its id; every history row refers to an existing
\* source row; no other step removes or rewrites a history row.
C6_CascadeDelete ==
    [][/\ outcome'.op = "delete" => outcome'.err = "none"
       /\ \A id \in DOMAIN source \ DOMAIN source' :
             history' = Unreferenced(history, id)
       /\ (DOMAIN source \subseteq DOMAIN source') => IsPrefix(history, history')
       /\ \A i \in DOMAIN history' : history'[i]._sourceId \in DOMAIN source']_vars

\* C6 witness: a source row with history was deleted (the caller still
\* holds one of its deleted history rows) and the other row's history is
\* still there.
C6_Witness ==
    /\ outcome = [op |-> "delete", err |-> "none"]
    /\ held # <<>>
    /\ held[1]._sourceId \notin DOMAIN source
    /\ history # <<>>
    /\ \A i \in DOMAIN history : history[i]._sourceId \in DOMAIN source

\* C7: an attach whose resolved idAttr names no attribute of the model
\* fails, and defines no history model, registers no association and adds
\* no hook.
C7_InvalidIdAttrFails ==
    [][(/\ outcome'.op = "attach"
        /\ ValueOf(outcome'.options.idAttr) \notin AttrSet(outcome'.model)) =>
          /\ outcome'.err = "InvalidIdAttribute"
          /\ models' = models
          /\ associations' = associations
          /\ hooks' = hooks]_vars

\* C7 witness: after one successful attach, an attach to the model Tag,
\* which has no attribute "id", failed and left the registrations alone.
C7_Witness ==
    /\ outcome.op = "attach"
    /\ outcome.model = "Tag"
    /\ outcome.err = "InvalidIdAttribute"
    /\ outcome.options.idAttr = Given("id")
    /\ Cardinality(models) = 1
    /\ Len(hooks) = 1

\* C8: every attach of a model M resolves the options the factory was
\* called with against M: track, idAttr, modelName and tableName are the
\* caller's when given, else all of M's attribute names, "id",
\* M.name + "History" and M.tableName + "_history".
C8_ResolutionIsPure ==
    outcome.op = "attach" =>
       LET O == NormalizeArgs(arguments)
           M == outcome.model
       IN /\ outcome.options.track =
                IF O.track = Absent THEN Given(AttrSet(M)) ELSE O.track
          /\ outcome.options.idAttr =
                IF O.idAttr = Absent THEN Given("id") ELSE O.idAttr
          /\ outcome.options.modelName =
                IF O.modelName = Absent THEN Given(<<M, "History">>) ELSE O.modelName
          /\ outcome.options.tableName =
                IF O.tableName = Absent
                THEN Given(<<ModelTableName[M], "_history">>) ELSE O.tableName

\* C9: under every interleaving of concurrent updates, no insert computes
\* a (_sourceId, _revision) pair that another insert in flight computed
\* or that a stored row carries, no insert fails, and the rows of each
\* source id carry the revisions 1..n.
C9_DistinctRevisionsUnderRaces ==
    /\ \A c \in Callers :
          pc[c] = "insert" =>
             /\ ~UniqueViolation(history, local[c][1].new)
             /\ \A d \in Callers \ {c} :
                   pc[d] = "insert" =>
                      \/ local[d][1].new._sourceId # local[c][1].new._sourceId
                      \/ local[d][1].new._revision # local[c][1].new._revision
    /\ outcome.err # "UniqueConstraintError"
    /\ \A id \in SourceIds :
          {References(history, id)[k]._revision : k \in DOMAIN References(history, id)}
             = 1..Len(References(history, id))

\* C10 as stated: after the table sync, sync issues drop trigger, create
\* function, create trigger, in this order.
C10_DropFnTrigger ==
    IsPrefix(queries, <<"sync", "dropInsertTrigger", "createInsertFn", "createInsertTrigger">>)

\* C10 amended: after the table sync, sync issues create function, drop
\* trigger, create trigger, in this order, each only after the statement
\* before it has succeeded.
C10_FnDropTrigger ==
    /\ IsPrefix(queries, <<"sync", "createInsertFn", "dropInsertTrigger", "createInsertTrigger">>)
    /\ syncPc \in 1..4 => Len(queries) = syncPc
    /\ syncPc = 5 => Len(queries) = 4 /\ db.trigger
    /\ Len(queries) >= 2 => db.table
    /\ Len(queries) >= 3 => db.fn
    /\ (Len(queries) = 4 /\ syncPc = 4) => ~db.trigger

\* C10 witness: a second sync, on a database that has the trigger, has
\* issued all four statements and resolved.
C10_Witness ==
    /\ syncs = 2
    /\ syncPc = 5
    /\ queries = <<"sync", "createInsertFn", "dropInsertTrigger", "createInsertTrigger">>
    /\ db = [table |-> TRUE, fn |-> TRUE, trigger |-> TRUE]

====
